---- MODULE Spec2Model ----
(***************************************************************************)
(* Ingestion job controller of Vectory.                                    *)
(*                                                                         *)
(* One ingestion job row (table ingestion_jobs), the Celery queue of       *)
(* process_ingestion_job tasks for it, the worker processes that run the   *)
(* task (backend/app/workers/tasks.py) and the API handlers create_job,    *)
(* cancel_job and retry_job (backend/app/api/routes/ingestion.py).         *)
(*                                                                         *)
(* Persistence follows the session factories of backend/app/database.py:   *)
(* every handler and every worker run owns a session of its own, with      *)
(* expire_on_commit=False and autoflush=False.  A session keeps the        *)
(* attribute values it loaded (or last wrote); commit() flushes an UPDATE  *)
(* of exactly the attributes whose in-memory value differs from that       *)
(* baseline and never re-reads the row.  A step of the model is one        *)
(* database round trip (a SELECT, or a commit with the local computation   *)
(* that precedes it): between two round trips of one session any other     *)
(* session may commit.                                                     *)
(***************************************************************************)
EXTENDS Integers, Sequences, FiniteSets, TLC

(* ---- bounds of the model ---------------------------------------------- *)

\* worker processes consuming the queue
NumWorkers == 2
\* retry_job requests issued over the life of the job
MaxRetries == 2
\* cancel_job requests issued over the life of the job
MaxCancels == 1
\* chunks of one batch whose embedding step may raise
MaxEmbedFailures == 1
\* batch commits whose INSERT of vector records may be refused by the store
MaxStoreFailures == 1

\* longest text given to a chunking strategy
MaxTextLen == 4
\* largest chunk_size and overlap given to a chunking strategy
MaxChunkSize == 3
MaxOverlap == 3
\* passes of the loop of fixed_size_chunks that are followed
MaxPasses == 6
\* Longest text given to sentence_chunks when it is exercised alone.
MaxSentenceTextLen == 7
\* Documents given to markdown_chunks when it is exercised alone: at most
\* MaxBlocks blocks and MaxDocLen characters, a long sentence having LongLen
\* characters, and three values of chunk_size.
MaxBlocks == 4
MaxDocLen == 120
LongLen == 51
SmallChunkSize == 4
MediumChunkSize == 30
LargeChunkSize == 120

\* largest max_attempts, delay (initial_delay, max_delay) and exponential_base
\* given to retry_with_exponential_backoff
MaxAttempts == 4
MaxDelay == 3
MaxBase == 2

\* most sub-batches one call of _openai_batch_embeddings is given
MaxSlices == 3

\* largest collection dimension and vector length, most stored records, and
\* most vectors in one insert_vectors request
MaxDimension == 2
MaxRecords == 2
MaxPayload == 2

\* A search: rows in the collection and the largest top_k.
MaxRows == 2
MaxTopK == 2

(* ---- program constants ------------------------------------------------ *)

\* tasks.py: batch_size = 50
batch_size == 50

\* ingestion.py, job_progress: for _ in range(300)
max_polls == 300

\* embeddings.py: MAX_OPENAI_BATCH_SIZE = 2048
MAX_OPENAI_BATCH_SIZE == 2048

\* embeddings.py, retry_with_exponential_backoff: max_attempts: int = 5
default_max_attempts == 5

Workers == 1..NumWorkers
RetryRequests == 1..MaxRetries
CancelRequests == 1..MaxCancels

\* The only job id the model follows (IngestionJob.id).
JobId == "job"

\* Optional[str]: None is the empty tuple, a string s is <<s>>.
None == <<>>
Some(s) == <<s>>

\* str(e) of an exception raised by the parser, the chunker or the store: an
\* exception built without arguments prints as the empty string.
ExcMessages == {""}

\* len(chunks) for the job's document and config: one batch, a full batch,
\* a full batch and one more chunk.
DocChunkCounts == {1, batch_size, batch_size + 1}

Min(a, b) == IF a < b THEN a ELSE b

(* ---- state ------------------------------------------------------------ *)

VARIABLES
    ingestion_jobs,  \* table ingestion_jobs: job id -> row
    vectors,         \* number of VectorRecord rows committed for the job
    queue,           \* process_ingestion_job messages waiting in the broker
    worker,          \* per worker process: position in the task and session
    retry,           \* per retry_job request: position and loaded attributes
    cancel,          \* per cancel_job request: position and loaded attributes
    doc_chunks,      \* len(chunks) the chunker yields for the job's document
    store_failures,  \* store refusals so far
    stream,          \* the progress stream of job_progress for the job
    chunker,         \* one call of a chunking strategy
    retrier,         \* one call of a retry_with_exponential_backoff wrapper
    embedder,        \* one call of _openai_batch_embeddings
    records,         \* the vector records of one collection
    search           \* one search request on a collection

\* The job, its queue, its workers and the cancel and retry requests.
jobVars == <<ingestion_jobs, vectors, queue, worker, retry, cancel, doc_chunks,
             store_failures>>

\* The library functions and the vector routes, each exercised on its own.
unitVars == <<chunker, retrier, embedder, records, search>>

\* What the job's own operations never touch.
nonJobVars == <<stream, unitVars>>

vars == <<jobVars, nonJobVars>>

\* IngestionJob column defaults.
NewJob ==
    [status |-> "pending", total_chunks |-> 0, processed_chunks |-> 0,
     failed_chunks |-> 0, error_message |-> None,
     started_at |-> FALSE, completed_at |-> FALSE]

\* Session.commit() of a session holding one IngestionJob, loaded as snap and
\* now mem: the UPDATE sets the attributes whose value differs from the loaded
\* one, the others keep whatever the row holds by now.
FlushDirty(row, snap, mem) ==
    [a \in DOMAIN row |->
        IF a \in DOMAIN mem /\ mem[a] # snap[a] THEN mem[a] ELSE row[a]]

\* A worker between two tasks.  outcome is what its last run returned.
IdleWorker ==
    [pc |-> "idle", mem |-> NewJob, chunks |-> 0, i |-> 0, exc |-> "",
     embed_failed |-> 0, outcome |-> "none"]

\* The task returned and session.close() ran.
Returned(outcome) == [IdleWorker EXCEPT !.outcome = outcome]

\* A request not yet sent; seen holds the attributes the handler assigns, as
\* it loaded them.
NewRequest == [pc |-> "new", seen |-> << >>, resp |-> "none"]

\* A request's handler has answered: its session is gone.
Answered(resp) == [pc |-> "done", seen |-> << >>, resp |-> resp]

\* A part of the system that is not exercised.
Unused == "unused"

\* No progress stream has been requested.
NoStream == [pc |-> "none", polls |-> 0, job |-> << >>, last |-> "none"]

Init ==
    /\ ingestion_jobs = << >>
    /\ vectors = 0
    /\ queue = 0
    /\ worker = [w \in Workers |-> IdleWorker]
    /\ retry = [r \in RetryRequests |-> NewRequest]
    /\ cancel = [c \in CancelRequests |-> NewRequest]
    /\ doc_chunks \in DocChunkCounts
    /\ store_failures = 0
    /\ stream = NoStream
    /\ chunker = Unused
    /\ retrier = Unused
    /\ embedder = Unused
    /\ records = Unused
    /\ search = Unused

JobExists == JobId \in DOMAIN ingestion_jobs
Job == ingestion_jobs[JobId]

\* process_ingestion_job.delay(...) inside try/except: the message is queued,
\* or the broker is unreachable and the error is swallowed.
Dispatch ==
    \/ queue' = queue + 1
    \/ queue' = queue

(* ---- create_job -------------------------------------------------------- *)

CreateJob ==
    /\ ~JobExists
    /\ ingestion_jobs' = (JobId :> NewJob)
    /\ Dispatch
    /\ UNCHANGED <<vectors, worker, retry, cancel, doc_chunks, store_failures>>
    /\ UNCHANGED nonJobVars

(* ---- process_ingestion_job -------------------------------------------- *)

\* session.commit() of the worker: its job object held worker[w].mem after the
\* previous round trip and holds mem now.
WorkerCommit(w, mem) == FlushDirty(Job, worker[w].mem, mem)

\* The broker hands a waiting message to an idle worker (the first one: idle
\* workers are interchangeable), which loads the job.
WorkerLoad(w) ==
    /\ worker[w].pc = "idle"
    /\ \A v \in Workers : v < w => worker[v].pc # "idle"
    /\ queue > 0
    /\ queue' = queue - 1
    /\ worker' = [worker EXCEPT ![w] =
         IF ~JobExists
         THEN Returned("not_found")
         ELSE IF Job.status = "cancelled"
         THEN Returned("cancelled")
         ELSE [IdleWorker EXCEPT !.pc = "loaded", !.mem = Job]]
    /\ UNCHANGED <<ingestion_jobs, vectors, retry, cancel, doc_chunks,
                   store_failures>>
    /\ UNCHANGED nonJobVars

WorkerStart(w) ==
    /\ worker[w].pc = "loaded"
    /\ LET mem == [worker[w].mem EXCEPT !.status = "processing",
                                        !.started_at = TRUE]
       IN /\ ingestion_jobs' = [ingestion_jobs EXCEPT ![JobId] = WorkerCommit(w, mem)]
          /\ worker' = [worker EXCEPT ![w].pc = "started", ![w].mem = mem]
    /\ UNCHANGED <<vectors, queue, retry, cancel, doc_chunks, store_failures>>
    /\ UNCHANGED nonJobVars

\* job.status = "failed"; job.error_message = msg; session.commit(); return
WorkerFail(w, msg, cause) ==
    LET mem == [worker[w].mem EXCEPT !.status = "failed",
                                     !.error_message = Some(msg)]
    IN /\ ingestion_jobs' = [ingestion_jobs EXCEPT ![JobId] = WorkerCommit(w, mem)]
       /\ worker' = [worker EXCEPT ![w] = Returned(cause)]

\* Mutant: the parser's message without the prefix.
ParseErrorMessageBare(e) == e

ParseErrorMessage(e) == "Failed to parse document: " \o e

\* job.total_chunks = len(chunks); session.commit()
WorkerSetTotal(w) ==
    LET mem == [worker[w].mem EXCEPT !.total_chunks = doc_chunks]
    IN /\ ingestion_jobs' = [ingestion_jobs EXCEPT ![JobId] = WorkerCommit(w, mem)]
       /\ worker' = [worker EXCEPT ![w].pc = "batches", ![w].mem = mem,
                                   ![w].chunks = doc_chunks, ![w].i = 0]

\* From the collection lookup to the commit that follows it: the collection is
\* missing, the parser raises, the text is blank, the chunker raises (into the
\* outer handler, whose session is intact), or the chunks are counted.
WorkerPrepare(w) ==
    /\ worker[w].pc = "started"
    /\ \/ WorkerFail(w, "Collection not found", "collection")
       \/ \E e \in ExcMessages : WorkerFail(w, ParseErrorMessage(e), "parse")
       \/ WorkerFail(w, "Document is empty or could not be parsed", "empty")
       \/ \E e \in ExcMessages : WorkerFail(w, e, "exception")
       \/ WorkerSetTotal(w)
    /\ UNCHANGED <<vectors, queue, retry, cancel, doc_chunks, store_failures>>
    /\ UNCHANGED nonJobVars

\* Mutant: every batch counted as a full one, the short last batch too.
BatchCountsFullBatch(mem, len, f) ==
    [mem EXCEPT !.processed_chunks = @ + (batch_size - f), !.failed_chunks = @ + f]

\* The inner loop over a batch of len chunks of which f raise inside the inner
\* try (embedding): the others are added to the session.
BatchCounts(mem, len, f) ==
    [mem EXCEPT !.processed_chunks = @ + (len - f), !.failed_chunks = @ + f]

\* One pass of the batch loop: the cancellation test on the in-memory job, the
\* inner loop, the commit.  The INSERT of the added records is sent by the
\* commit, outside the inner try: a record the store refuses makes the commit
\* raise and roll the batch back.
WorkerBatch(w) ==
    /\ worker[w].pc = "batches"
    /\ LET me == worker[w]
           len == Min(batch_size, me.chunks - me.i)
           next_i == me.i + batch_size
       IN IF me.mem.status = "cancelled"
          THEN /\ worker' = [worker EXCEPT ![w].pc = "complete"]
               /\ UNCHANGED <<ingestion_jobs, vectors, store_failures>>
          ELSE \E f \in 0..Min(len, MaxEmbedFailures) :
               LET mem == BatchCounts(me.mem, len, f)
               IN \/ /\ ingestion_jobs' =
                          [ingestion_jobs EXCEPT ![JobId] = WorkerCommit(w, mem)]
                     /\ vectors' = vectors + (len - f)
                     /\ worker' = [worker EXCEPT
                          ![w].pc = IF next_i < me.chunks THEN "batches" ELSE "complete",
                          ![w].mem = mem, ![w].i = next_i,
                          ![w].embed_failed = @ + f]
                     /\ UNCHANGED store_failures
                  \/ /\ len - f >= 1
                     /\ store_failures < MaxStoreFailures
                     /\ store_failures' = store_failures + 1
                     /\ \E e \in ExcMessages :
                          worker' = [worker EXCEPT ![w].pc = "except",
                                                   ![w].exc = e,
                                                   ![w].embed_failed = @ + f]
                     /\ UNCHANGED <<ingestion_jobs, vectors>>
    /\ UNCHANGED <<queue, retry, cancel, doc_chunks>>
    /\ UNCHANGED nonJobVars

\* Mutant: completion rewrites total_chunks to what was stored.
CompletedJobTrimTotal(mem) ==
    [mem EXCEPT !.status = "completed", !.completed_at = TRUE,
                !.total_chunks = mem.processed_chunks]

\* job.status = "completed" if job.failed_chunks == 0 else "completed"
CompletedJob(mem) == [mem EXCEPT !.status = "completed", !.completed_at = TRUE]

WorkerComplete(w) ==
    /\ worker[w].pc = "complete"
    /\ ingestion_jobs' = [ingestion_jobs EXCEPT
         ![JobId] = WorkerCommit(w, CompletedJob(worker[w].mem))]
    /\ worker' = [worker EXCEPT ![w] = Returned("completed")]
    /\ UNCHANGED <<vectors, queue, retry, cancel, doc_chunks, store_failures>>
    /\ UNCHANGED nonJobVars

\* The outer handler after a commit that raised.  The failed flush rolled the
\* transaction back and expired the session's objects.  Either the handler's
\* query reloads the row and the job is marked failed, or the session refuses
\* further work until rollback() and the inner "except: pass" swallows that.
WorkerExcept(w) ==
    /\ worker[w].pc = "except"
    /\ \/ ingestion_jobs' = [ingestion_jobs EXCEPT ![JobId] =
            [Job EXCEPT !.status = "failed",
                        !.error_message = Some(worker[w].exc)]]
       \/ UNCHANGED ingestion_jobs
    /\ worker' = [worker EXCEPT ![w] = Returned("store")]
    /\ UNCHANGED <<vectors, queue, retry, cancel, doc_chunks, store_failures>>
    /\ UNCHANGED nonJobVars

(* ---- cancel_job -------------------------------------------------------- *)

\* Requests are sent in the order of their index.
Issued(req, k) == IF k = 1 THEN TRUE ELSE req[k - 1].pc # "new"

CancelAllowed(status) == status \notin {"completed", "cancelled"}

\* SELECT, then 404 or 400, or go on to the update.
CancelRead(c) ==
    /\ JobExists
    /\ cancel[c].pc = "new"
    /\ Issued(cancel, c)
    /\ cancel' = [cancel EXCEPT ![c] =
         IF CancelAllowed(Job.status)
         THEN [pc |-> "read", seen |-> [status |-> Job.status], resp |-> "none"]
         ELSE Answered("rejected")]
    /\ UNCHANGED <<ingestion_jobs, vectors, queue, worker, retry, doc_chunks,
                   store_failures>>
    /\ UNCHANGED nonJobVars

\* job.status = "cancelled"
CancelSet(job) == [job EXCEPT !.status = "cancelled"]

CancelCommit(c) ==
    /\ cancel[c].pc = "read"
    /\ ingestion_jobs' = [ingestion_jobs EXCEPT
         ![JobId] = FlushDirty(Job, cancel[c].seen, CancelSet(cancel[c].seen))]
    /\ cancel' = [cancel EXCEPT ![c] = Answered("ok")]
    /\ UNCHANGED <<vectors, queue, worker, retry, doc_chunks, store_failures>>
    /\ UNCHANGED nonJobVars

(* ---- retry_job --------------------------------------------------------- *)

RetryAllowed(status) == status = "failed"

RetryRead(r) ==
    /\ JobExists
    /\ retry[r].pc = "new"
    /\ Issued(retry, r)
    /\ retry' = [retry EXCEPT ![r] =
         IF RetryAllowed(Job.status)
         THEN [pc |-> "read",
               seen |-> [status |-> Job.status,
                         error_message |-> Job.error_message,
                         processed_chunks |-> Job.processed_chunks,
                         failed_chunks |-> Job.failed_chunks],
               resp |-> "none"]
         ELSE Answered("rejected")]
    /\ UNCHANGED <<ingestion_jobs, vectors, queue, worker, cancel, doc_chunks,
                   store_failures>>
    /\ UNCHANGED nonJobVars

\* The four assignments of retry_job to the loaded job.
RetryReset(job) ==
    [job EXCEPT !.status = "pending", !.error_message = None,
                !.processed_chunks = 0, !.failed_chunks = 0]

RetryCommit(r) ==
    /\ retry[r].pc = "read"
    /\ ingestion_jobs' = [ingestion_jobs EXCEPT
         ![JobId] = FlushDirty(Job, retry[r].seen, RetryReset(retry[r].seen))]
    /\ retry' = [retry EXCEPT ![r] = Answered("ok")]
    /\ Dispatch
    /\ UNCHANGED <<vectors, worker, cancel, doc_chunks, store_failures>>
    /\ UNCHANGED nonJobVars

(* ---- the system -------------------------------------------------------- *)

Next ==
    \/ CreateJob
    \/ \E w \in Workers :
         \/ WorkerLoad(w)
         \/ WorkerStart(w)
         \/ WorkerPrepare(w)
         \/ WorkerBatch(w)
         \/ WorkerComplete(w)
         \/ WorkerExcept(w)
    \/ \E c \in CancelRequests : CancelRead(c) \/ CancelCommit(c)
    \/ \E r \in RetryRequests : RetryRead(r) \/ RetryCommit(r)

Spec == Init /\ [][Next]_vars

\* A worker that has taken a task runs it to its return.
WorkerRuns(w) ==
    \/ WorkerStart(w)
    \/ WorkerPrepare(w)
    \/ WorkerBatch(w)
    \/ WorkerComplete(w)
    \/ WorkerExcept(w)

\* The system with workers that keep taking steps.
SpecWorkersRun == Spec /\ \A w \in Workers : WF_vars(WorkerRuns(w))

(* ---- job_progress ------------------------------------------------------ *)

TerminalStatuses == {"completed", "failed", "cancelled"}

\* What a progress event reports of the job.
ProgressOf(job) ==
    [status |-> job.status, total_chunks |-> job.total_chunks,
     processed_chunks |-> job.processed_chunks,
     failed_chunks |-> job.failed_chunks]

\* GET /jobs/{job_id}/progress: the StreamingResponse starts its generator.
ProgressOpen ==
    /\ stream.pc = "none"
    /\ stream' = [NoStream EXCEPT !.pc = "polling"]
    /\ UNCHANGED <<jobVars, unitVars>>

\* db.execute(select(IngestionJob)...) in the generator's session.  The
\* session keeps the IngestionJob it loaded in its identity map: nothing
\* commits or expires it between two polls, so a later SELECT of the same
\* primary key returns that object with the attributes it already holds.
ProgressSelect ==
    IF stream.job # None THEN stream.job
    ELSE IF JobExists THEN Some(ProgressOf(Job)) ELSE None

\* One pass of the loop of event_generator: the SELECT, the event, the test
\* for a terminal status, asyncio.sleep(1); the generator returns on a
\* missing job, on a terminal status, and when range(300) is exhausted.
ProgressPoll ==
    /\ stream.pc = "polling"
    /\ LET found == ProgressSelect
       IN IF found = None
          THEN stream' = [pc |-> "closed", polls |-> stream.polls + 1,
                          job |-> None, last |-> "not_found"]
          ELSE LET ends == \/ found[1].status \in TerminalStatuses
                           \/ stream.polls + 1 = max_polls
               IN stream' = [pc |-> IF ends THEN "closed" ELSE "polling",
                             polls |-> stream.polls + 1,
                             job |-> IF ends THEN None ELSE found,
                             last |-> found[1].status]
    /\ UNCHANGED <<jobVars, unitVars>>

\* A progress stream over one life of a one-chunk job: no retry_job.
InitProgress == Init /\ doc_chunks = 1

NextProgress ==
    \/ CreateJob
    \/ \E w \in Workers :
         \/ WorkerLoad(w)
         \/ WorkerStart(w)
         \/ WorkerPrepare(w)
         \/ WorkerBatch(w)
         \/ WorkerComplete(w)
         \/ WorkerExcept(w)
    \/ \E c \in CancelRequests : CancelRead(c) \/ CancelCommit(c)
    \/ ProgressOpen
    \/ ProgressPoll

SpecProgress == InitProgress /\ [][NextProgress]_vars

\* The job and its progress stream are not exercised.
OthersUnused ==
    /\ ingestion_jobs = << >>
    /\ vectors = 0
    /\ queue = 0
    /\ worker = [w \in Workers |-> IdleWorker]
    /\ retry = [r \in RetryRequests |-> NewRequest]
    /\ cancel = [c \in CancelRequests |-> NewRequest]
    /\ doc_chunks = 1
    /\ store_failures = 0
    /\ stream = NoStream

(* ---- utils/chunking.py: fixed_size_chunks ------------------------------ *)

\* Characters str.strip() removes and \s matches.
Whitespace == {" ", "\n"}

\* Texts are sequences of characters.
TextsOver(chars, n) == UNION {[1..k -> chars] : k \in 0..n}

Max(a, b) == IF a > b THEN a ELSE b

\* A slice bound as Python resolves it: a negative bound counts from the end,
\* and the result is clamped to 0..n.
SliceBound(n, k) == IF k < 0 THEN Max(n + k, 0) ELSE Min(k, n)

\* s[a:b]
Slice(s, a, b) ==
    LET lo == SliceBound(Len(s), a)
        hi == SliceBound(Len(s), b)
    IN IF lo >= hi THEN << >> ELSE SubSeq(s, lo + 1, hi)

\* s.strip()
strip(s) ==
    LET kept == {i \in 1..Len(s) : s[i] \notin Whitespace}
    IN IF kept = {} THEN << >>
       ELSE SubSeq(s, CHOOSE i \in kept : \A j \in kept : i <= j,
                      CHOOSE i \in kept : \A j \in kept : i >= j)

FixedTexts == TextsOver({"a", "b", " "}, MaxTextLen)

\* fixed_size_chunks(text, chunk_size, overlap) has been called.
InitFixed ==
    /\ ingestion_jobs = << >>
    /\ vectors = 0
    /\ queue = 0
    /\ worker = [w \in Workers |-> IdleWorker]
    /\ retry = [r \in RetryRequests |-> NewRequest]
    /\ cancel = [c \in CancelRequests |-> NewRequest]
    /\ doc_chunks = 1
    /\ store_failures = 0
    /\ stream = NoStream
    /\ retrier = Unused
    /\ embedder = Unused
    /\ records = Unused
    /\ search = Unused
    /\ \E text \in FixedTexts, chunk_size \in 1..MaxChunkSize, overlap \in 0..MaxOverlap :
         chunker = [strategy |-> "fixed_size", pc |-> "call", text |-> text,
                    chunk_size |-> chunk_size, overlap |-> overlap,
                    start |-> 0, chunks |-> << >>, passes |-> 0]

\* if not text: return []; chunks = []; start = 0
FixedSizeCall ==
    /\ chunker.strategy = "fixed_size"
    /\ chunker.pc = "call"
    /\ chunker' = [chunker EXCEPT
                     !.pc = IF chunker.text = << >> THEN "returned" ELSE "loop"]
    /\ UNCHANGED <<jobVars, stream, retrier, embedder, records, search>>

\* Mutant: the window is one character too long.
WindowEndLong(start, chunk_size) == start + chunk_size + 1

\* end = start + chunk_size
WindowEnd(start, chunk_size) == start + chunk_size

\* Mutant: the next window starts where this one ended.
NextStartNoOverlap(end, overlap) == end

\* start = end - overlap
NextStart(end, overlap) == end - overlap

\* One pass of `while start < text_len`, with its two break tests.
FixedSizePass ==
    /\ chunker.pc = "loop"
    /\ chunker.passes < MaxPasses
    /\ LET text_len == Len(chunker.text)
           start == chunker.start
           end == WindowEnd(start, chunker.chunk_size)
           chunk == Slice(chunker.text, start, end)
           next == NextStart(end, chunker.overlap)
       IN IF ~(start < text_len)
          THEN chunker' = [chunker EXCEPT !.pc = "returned"]
          ELSE chunker' = [chunker EXCEPT
                 !.chunks = IF strip(chunk) # << >> THEN Append(@, strip(chunk))
                            ELSE @,
                 !.start = next,
                 !.passes = @ + 1,
                 !.pc = IF next >= text_len \/ end >= text_len
                        THEN "returned" ELSE "loop"]
    /\ UNCHANGED <<jobVars, stream, retrier, embedder, records, search>>

NextFixed == FixedSizeCall \/ FixedSizePass

SpecFixed == InitFixed /\ [][NextFixed]_vars

(* ---- utils/chunking.py: sentence_chunks, paragraph_chunks --------------- *)

\* sep.join(parts)
RECURSIVE Join(_, _)
Join(parts, sep) ==
    IF parts = << >> THEN << >>
    ELSE IF Len(parts) = 1 THEN parts[1]
    ELSE parts[1] \o sep \o Join(Tail(parts), sep)

\* Mutant: the blank parts are kept.
StripAndKeepBlank(parts) == [k \in 1..Len(parts) |-> strip(parts[k])]

\* [p.strip() for p in parts if p.strip()]
RECURSIVE StripAndDropBlank(_)
StripAndDropBlank(parts) ==
    IF parts = << >> THEN << >>
    ELSE (IF strip(parts[1]) # << >> THEN <<strip(parts[1])>> ELSE << >>)
           \o StripAndDropBlank(Tail(parts))

\* sum(len(s) for s in parts)
RECURSIVE SumLen(_)
SumLen(parts) ==
    IF parts = << >> THEN 0 ELSE Len(parts[1]) + SumLen(Tail(parts))

\* Last index of the run of whitespace that starts at i.
RECURSIVE RunEnd(_, _)
RunEnd(text, i) ==
    IF i < Len(text) /\ text[i + 1] \in Whitespace THEN RunEnd(text, i + 1) ELSE i

SentenceEnds == {".", "!", "?"}

\* The least element of a non-empty set of numbers.
Least(S) == CHOOSE x \in S : \A y \in S : x <= y

\* re.split(r'(?<=[.!?])\s+', text), from index i on: a separator is a whole
\* run of whitespace that follows one of . ! ?
RECURSIVE SplitSentences(_, _)
SplitSentences(text, i) ==
    LET seps == {j \in i..Len(text) :
                    text[j] \in Whitespace /\ j > 1 /\ text[j - 1] \in SentenceEnds}
    IN IF seps = {} THEN <<SubSeq(text, i, Len(text))>>
       ELSE <<SubSeq(text, i, Least(seps) - 1)>>
              \o SplitSentences(text, RunEnd(text, Least(seps)) + 1)

\* Mutant: the first sentences of the chunk are kept as the overlap.
OverlapSentencesFirst(current_chunk, overlap_count) ==
    SubSeq(current_chunk, 1, overlap_count)

\* current_chunk[-overlap_count:]
OverlapSentences(current_chunk, overlap_count) ==
    Slice(current_chunk, 0 - overlap_count, Len(current_chunk))

\* The loop of sentence_chunks over sentences[k..], returning chunks with the
\* final flush of current_chunk.
RECURSIVE SentenceLoop(_, _, _, _, _, _)
SentenceLoop(sentences, k, chunks, current_chunk, chunk_size, overlap) ==
    IF k > Len(sentences)
    THEN IF current_chunk # << >>
         THEN Append(chunks, Join(current_chunk, <<" ">>)) ELSE chunks
    ELSE LET sentence == sentences[k]
             flush == SumLen(current_chunk) + Len(sentence) > chunk_size
                        /\ current_chunk # << >>
             overlap_count == Min(overlap, Len(current_chunk))
             kept == IF ~flush THEN current_chunk
                     ELSE IF overlap_count > 0
                          THEN OverlapSentences(current_chunk, overlap_count)
                          ELSE << >>
         IN SentenceLoop(sentences, k + 1,
                         IF flush THEN Append(chunks, Join(current_chunk, <<" ">>))
                         ELSE chunks,
                         Append(kept, sentence), chunk_size, overlap)

sentence_chunks(text, chunk_size, overlap) ==
    IF text = << >> THEN << >>
    ELSE LET sentences == StripAndDropBlank(SplitSentences(text, 1))
         IN IF sentences = << >>
            THEN (IF strip(text) # << >> THEN <<strip(text)>> ELSE << >>)
            ELSE SentenceLoop(sentences, 1, << >>, << >>, chunk_size, overlap)

\* Index of the last "\n" among text[i..j], or 0.
RECURSIVE LastNewline(_, _, _)
LastNewline(text, i, j) ==
    IF j < i THEN 0
    ELSE IF text[j] = "\n" THEN j ELSE LastNewline(text, i, j - 1)

\* re.split(r'\n\s*\n', text), from index i on: a separator runs from a
\* newline to the last newline of the same run of whitespace.
RECURSIVE SplitParagraphs(_, _)
SplitParagraphs(text, i) ==
    LET seps == {j \in i..Len(text) :
                    text[j] = "\n" /\ LastNewline(text, j + 1, RunEnd(text, j)) > 0}
    IN IF seps = {} THEN <<SubSeq(text, i, Len(text))>>
       ELSE <<SubSeq(text, i, Least(seps) - 1)>>
              \o SplitParagraphs(text,
                     LastNewline(text, Least(seps) + 1, RunEnd(text, Least(seps))) + 1)

\* The loop of paragraph_chunks over paragraphs[k..], with the final flush.
RECURSIVE ParagraphLoop(_, _, _, _, _)
ParagraphLoop(paragraphs, k, chunks, current_chunk, chunk_size) ==
    IF k > Len(paragraphs)
    THEN IF current_chunk # << >>
         THEN Append(chunks, Join(current_chunk, <<"\n", "\n">>)) ELSE chunks
    ELSE LET para == paragraphs[k]
             flush == SumLen(current_chunk) + Len(para) > chunk_size
                        /\ current_chunk # << >>
         IN ParagraphLoop(paragraphs, k + 1,
                          IF flush
                          THEN Append(chunks, Join(current_chunk, <<"\n", "\n">>))
                          ELSE chunks,
                          Append(IF flush THEN << >> ELSE current_chunk, para),
                          chunk_size)

paragraph_chunks(text, chunk_size) ==
    IF text = << >> THEN << >>
    ELSE LET paragraphs == StripAndDropBlank(SplitParagraphs(text, 1))
         IN IF paragraphs = << >>
            THEN (IF strip(text) # << >> THEN <<strip(text)>> ELSE << >>)
            ELSE ParagraphLoop(paragraphs, 1, << >>, << >>, chunk_size)

(* ---- utils/chunking.py: markdown_chunks --------------------------------- *)

\* text.split("\n"), from index i on.
RECURSIVE SplitLines(_, _)
SplitLines(text, i) ==
    LET seps == {j \in i..Len(text) : text[j] = "\n"}
    IN IF seps = {} THEN <<SubSeq(text, i, Len(text))>>
       ELSE <<SubSeq(text, i, Least(seps) - 1)>> \o SplitLines(text, Least(seps) + 1)

\* Number of "#" the line begins with.
RECURSIVE HashCount(_)
HashCount(line) ==
    IF line # << >> /\ Head(line) = "#" THEN 1 + HashCount(Tail(line)) ELSE 0

\* "#" * level
Hashes(level) == [k \in 1..level |-> "#"]

\* re.match(r"^(#{1,6})\s+(.+)$", line): one to six "#", whitespace, and at
\* least one more character.
IsHeader(line) ==
    LET h == HashCount(line)
    IN h \in 1..6 /\ Len(line) >= h + 2 /\ line[h + 1] \in Whitespace

\* header_match.group(2).strip()
HeaderTitle(line) == strip(SubSeq(line, HashCount(line) + 1, Len(line)))

\* Mutant: the deeper levels are kept.
SetHeaderKeepDeeper(headers, level, title) ==
    [l \in DOMAIN headers \cup {level} |->
        IF l = level THEN title ELSE headers[l]]

\* current_headers[level] = title, and the deeper levels deleted.
SetHeader(headers, level, title) ==
    [l \in {k \in DOMAIN headers : k < level} \cup {level} |->
        IF l = level THEN title ELSE headers[l]]

\* The parts of the breadcrumb for the levels from level on, in order.
RECURSIVE BreadcrumbParts(_, _, _)
BreadcrumbParts(headers, level, current_level) ==
    IF level > 6 THEN << >>
    ELSE (IF level \in DOMAIN headers /\ level <= current_level
          THEN <<Hashes(level) \o <<" ">> \o headers[level]>> ELSE << >>)
           \o BreadcrumbParts(headers, level + 1, current_level)

_build_breadcrumb(headers, current_level) ==
    IF DOMAIN headers = {} THEN << >>
    ELSE Join(BreadcrumbParts(headers, 1, current_level), <<" ", ">", " ">>)

\* sections with the section that ends here, if it has content or a header.
SaveSection(sections, headers, content_lines, current_level) ==
    LET content == strip(Join(content_lines, <<"\n">>))
    IN IF content # << >> \/ current_level > 0
       THEN Append(sections,
                   [breadcrumb |-> _build_breadcrumb(headers, current_level),
                    content |-> content])
       ELSE sections

\* Step 1 of markdown_chunks over lines[k..], with the flush of the last
\* section.
RECURSIVE ParseSections(_, _, _, _, _, _)
ParseSections(lines, k, headers, content_lines, current_level, sections) ==
    IF k > Len(lines)
    THEN SaveSection(sections, headers, content_lines, current_level)
    ELSE IF IsHeader(lines[k])
         THEN ParseSections(lines, k + 1,
                  SetHeader(headers, HashCount(lines[k]), HeaderTitle(lines[k])),
                  << >>, HashCount(lines[k]),
                  SaveSection(sections, headers, content_lines, current_level))
         ELSE ParseSections(lines, k + 1, headers,
                  Append(content_lines, lines[k]), current_level, sections)

\* markdown_chunks: max(chunk_size - prefix_len, 100)
min_inner_size == 100

\* sentence_chunks: overlap: int = 1
default_sentence_overlap == 1

\* The chunks of a section larger than chunk_size: its content split by
\* paragraphs, or by sentences if a paragraph chunk is too long, each under
\* the breadcrumb.
LargeSectionChunks(breadcrumb, content, chunk_size) ==
    LET prefix_len == IF breadcrumb # << >> THEN Len(breadcrumb) + 2 ELSE 0
        inner_size == Max(chunk_size - prefix_len, min_inner_size)
        by_paragraph == paragraph_chunks(content, inner_size)
        too_long == \E k \in 1..Len(by_paragraph) : Len(by_paragraph[k]) > inner_size
        split == IF by_paragraph = << >> \/ too_long
                 THEN sentence_chunks(content, inner_size, default_sentence_overlap)
                 ELSE by_paragraph
        sub_chunks == IF split = << >> THEN <<content>> ELSE split
    IN [k \in 1..Len(sub_chunks) |->
          IF breadcrumb # << >> THEN breadcrumb \o <<"\n", "\n">> \o sub_chunks[k]
          ELSE sub_chunks[k]]

\* Step 2 of markdown_chunks over sections[k..], with the flush of
\* pending_text.
RECURSIVE BuildChunks(_, _, _, _, _)
BuildChunks(sections, k, chunks, pending_text, chunk_size) ==
    IF k > Len(sections)
    THEN IF pending_text # << >> THEN Append(chunks, pending_text) ELSE chunks
    ELSE LET breadcrumb == sections[k].breadcrumb
             content == sections[k].content
             section_text ==
                 IF breadcrumb # << >> /\ content # << >>
                 THEN breadcrumb \o <<"\n", "\n">> \o content
                 ELSE IF breadcrumb # << >> THEN breadcrumb ELSE content
             flushed == IF pending_text # << >> THEN Append(chunks, pending_text)
                        ELSE chunks
             combined == IF pending_text # << >>
                         THEN pending_text \o <<"\n", "\n">> \o section_text
                         ELSE section_text
         IN IF content = << >> /\ breadcrumb = << >>
            THEN BuildChunks(sections, k + 1, chunks, pending_text, chunk_size)
            ELSE IF Len(section_text) > chunk_size
            THEN BuildChunks(sections, k + 1,
                     flushed \o LargeSectionChunks(breadcrumb, content, chunk_size),
                     << >>, chunk_size)
            ELSE IF Len(combined) <= chunk_size
            THEN BuildChunks(sections, k + 1, chunks, combined, chunk_size)
            ELSE BuildChunks(sections, k + 1, flushed, section_text, chunk_size)

markdown_chunks(text, chunk_size) ==
    IF text = << >> \/ strip(text) = << >> THEN << >>
    ELSE LET sections == ParseSections(SplitLines(text, 1), 1, << >>,
                                       << >>, 0, << >>)
         IN IF sections = << >>
            THEN (IF strip(text) # << >> THEN <<strip(text)>> ELSE << >>)
            ELSE BuildChunks(sections, 1, << >>, << >>, chunk_size)

(* ---- utils/chunking.py: the four strategies ----------------------------- *)

\* _CHUNKERS
Strategies == {"fixed_size", "sentence", "paragraph", "markdown"}

ChunkerTexts == TextsOver({"a", ".", " ", "\n", "#"}, MaxTextLen)

\* get_chunker(strategy)(text, chunk_size=chunk_size, overlap=overlap) has
\* been called.
InitChunkers ==
    /\ OthersUnused
    /\ retrier = Unused
    /\ embedder = Unused
    /\ records = Unused
    /\ search = Unused
    /\ \E strategy \in Strategies, text \in ChunkerTexts,
          chunk_size \in 1..MaxChunkSize, overlap \in 0..MaxOverlap :
         chunker = [strategy |-> strategy, pc |-> "call", text |-> text,
                    chunk_size |-> chunk_size, overlap |-> overlap,
                    start |-> 0, chunks |-> << >>, passes |-> 0]

SentenceChunksCall ==
    /\ chunker.strategy = "sentence"
    /\ chunker.pc = "call"
    /\ chunker' = [chunker EXCEPT !.pc = "returned",
                     !.chunks = sentence_chunks(chunker.text, chunker.chunk_size,
                                                chunker.overlap)]
    /\ UNCHANGED <<jobVars, stream, retrier, embedder, records, search>>

ParagraphChunksCall ==
    /\ chunker.strategy = "paragraph"
    /\ chunker.pc = "call"
    /\ chunker' = [chunker EXCEPT !.pc = "returned",
                     !.chunks = paragraph_chunks(chunker.text, chunker.chunk_size)]
    /\ UNCHANGED <<jobVars, stream, retrier, embedder, records, search>>

MarkdownChunksCall ==
    /\ chunker.strategy = "markdown"
    /\ chunker.pc = "call"
    /\ chunker' = [chunker EXCEPT !.pc = "returned",
                     !.chunks = markdown_chunks(chunker.text, chunker.chunk_size)]
    /\ UNCHANGED <<jobVars, stream, retrier, embedder, records, search>>

\* sentence_chunks alone, on longer texts of letters, full stops and spaces.
SentenceTexts == TextsOver({"a", ".", " "}, MaxSentenceTextLen)

\* sentence_chunks(text, chunk_size, overlap) has been called.
InitSentences ==
    /\ OthersUnused
    /\ retrier = Unused
    /\ embedder = Unused
    /\ records = Unused
    /\ search = Unused
    /\ \E text \in SentenceTexts, chunk_size \in 1..MaxChunkSize,
          overlap \in 0..MaxOverlap :
         chunker = [strategy |-> "sentence", pc |-> "call", text |-> text,
                    chunk_size |-> chunk_size, overlap |-> overlap,
                    start |-> 0, chunks |-> << >>, passes |-> 0]

NextSentences == SentenceChunksCall

SpecSentences == InitSentences /\ [][NextSentences]_vars

\* markdown_chunks alone, on documents made of heading lines, a short line
\* and long sentences, so that a section can exceed min_inner_size.
LongSentence == [k \in 1..LongLen |-> IF k = LongLen THEN "." ELSE "c"]

MarkdownBlocks ==
    { <<"#", " ", "h", "\n">>,
      <<"#", "#", " ", "g", "\n">>,
      <<"#", "#", "#", " ", "k", "\n">>,
      <<"b", "\n">>,
      LongSentence \o <<" ">>,
      LongSentence \o <<"\n", "\n">> }

MarkdownTexts ==
    {text \in {Join(blocks, << >>) : blocks \in TextsOver(MarkdownBlocks, MaxBlocks)} :
        Len(text) <= MaxDocLen}

\* The values of chunk_size: below every section, room for two short
\* sections, room for one long sentence under its breadcrumb.
MarkdownChunkSizes == {SmallChunkSize, MediumChunkSize, LargeChunkSize}

\* markdown_chunks(text, chunk_size) has been called.
InitMarkdown ==
    /\ OthersUnused
    /\ retrier = Unused
    /\ embedder = Unused
    /\ records = Unused
    /\ search = Unused
    /\ \E text \in MarkdownTexts, chunk_size \in MarkdownChunkSizes :
         chunker = [strategy |-> "markdown", pc |-> "call", text |-> text,
                    chunk_size |-> chunk_size, overlap |-> 0,
                    start |-> 0, chunks |-> << >>, passes |-> 0]

NextMarkdown == MarkdownChunksCall

SpecMarkdown == InitMarkdown /\ [][NextMarkdown]_vars

NextChunkers ==
    \/ FixedSizeCall
    \/ FixedSizePass
    \/ SentenceChunksCall
    \/ ParagraphChunksCall
    \/ MarkdownChunksCall

SpecChunkers == InitChunkers /\ [][NextChunkers]_vars

(* ---- core/embeddings.py: retry_with_exponential_backoff ---------------- *)

\* Everything but the wrapper call.
nonRetrierVars == <<jobVars, stream, chunker, embedder, records, search>>

\* wrapper(*args) of retry_with_exponential_backoff(func, max_attempts,
\* initial_delay, max_delay, exponential_base) is called: delay =
\* initial_delay, last_exception = None.  outcomes lists what each invocation
\* of func did, sleeps the time.sleep() calls.
InitRetrier ==
    /\ OthersUnused
    /\ chunker = Unused
    /\ embedder = Unused
    /\ records = Unused
    /\ search = Unused
    /\ \E max_attempts \in 0..MaxAttempts, initial_delay \in 0..MaxDelay,
          max_delay \in 0..MaxDelay, exponential_base \in 1..MaxBase :
         retrier = [pc |-> "loop", max_attempts |-> max_attempts,
                    initial_delay |-> initial_delay, max_delay |-> max_delay,
                    exponential_base |-> exponential_base,
                    attempt |-> 0, delay |-> initial_delay,
                    outcomes |-> << >>, sleeps |-> << >>, result |-> None]

\* Mutant: the test for the last attempt is off by one.
IsLastAttemptLate(attempt, max_attempts) == attempt = max_attempts

\* if attempt == max_attempts - 1
IsLastAttempt(attempt, max_attempts) == attempt = max_attempts - 1

\* delay = min(delay * exponential_base, max_delay)
NextDelay(delay, exponential_base, max_delay) ==
    Min(delay * exponential_base, max_delay)

\* One pass of `for attempt in range(max_attempts)`: func returns, or raises
\* the error of this invocation, which is re-raised on the last attempt and
\* slept on otherwise.
WrapperAttempt ==
    /\ retrier.pc = "loop"
    /\ retrier.attempt < retrier.max_attempts
    /\ LET k == Len(retrier.outcomes) + 1
       IN \/ retrier' = [retrier EXCEPT !.pc = "returned",
                           !.outcomes = Append(@, "ok"),
                           !.result = Some(<<"value", k>>)]
          \/ IF IsLastAttempt(retrier.attempt, retrier.max_attempts)
             THEN retrier' = [retrier EXCEPT !.pc = "raised",
                                !.outcomes = Append(@, "error"),
                                !.result = Some(<<"error", k>>)]
             ELSE retrier' = [retrier EXCEPT
                                !.outcomes = Append(@, "error"),
                                !.result = Some(<<"error", k>>),
                                !.sleeps = Append(@, retrier.delay),
                                !.delay = NextDelay(retrier.delay,
                                                    retrier.exponential_base,
                                                    retrier.max_delay),
                                !.attempt = @ + 1]
    /\ UNCHANGED nonRetrierVars

\* range(max_attempts) is exhausted:
\* raise last_exception or Exception("Retry logic failed unexpectedly")
WrapperExhausted ==
    /\ retrier.pc = "loop"
    /\ retrier.attempt >= retrier.max_attempts
    /\ retrier' = [retrier EXCEPT !.pc = "raised",
                      !.result = IF @ = None THEN Some(<<"error", 0>>) ELSE @]
    /\ UNCHANGED nonRetrierVars

NextRetrier == WrapperAttempt \/ WrapperExhausted

SpecRetrier == InitRetrier /\ [][NextRetrier]_vars

(* ---- core/embeddings.py: _openai_batch_embeddings ---------------------- *)

nonEmbedderVars == <<jobVars, stream, chunker, retrier, records, search>>

\* The texts of a request are told apart by their position.
TextList(n) == [j \in 1..n |-> j]

\* What the provider answers for one text.
Embedding(text) == <<"embedding", text>>

\* client.embeddings.create(input=batch_texts); [item.embedding for item in
\* response.data]
ProviderAnswer(batch_texts) ==
    [k \in 1..Len(batch_texts) |-> Embedding(batch_texts[k])]

\* Lengths of texts around the sub-batch boundaries.
TextCounts ==
    {1} \cup {k * MAX_OPENAI_BATCH_SIZE : k \in 1..(MaxSlices - 1)}
        \cup {k * MAX_OPENAI_BATCH_SIZE + 1 : k \in 1..(MaxSlices - 1)}

\* _openai_batch_embeddings(texts, model) is called with n texts.  calls
\* lists the invocations of the provider: first text, number of texts, and
\* whether it answered.
InitEmbedder ==
    /\ OthersUnused
    /\ chunker = Unused
    /\ retrier = Unused
    /\ records = Unused
    /\ search = Unused
    /\ \E n \in TextCounts :
         embedder = [pc |-> "call", n |-> n, i |-> 0, attempt |-> 0,
                     all_embeddings |-> << >>, calls |-> << >>,
                     result |-> << >>]

\* if len(texts) <= MAX_OPENAI_BATCH_SIZE: the whole list in one wrapped call;
\* otherwise all_embeddings = [] and the loop over the sub-batches.
EmbedderCall ==
    /\ embedder.pc = "call"
    /\ embedder' = [embedder EXCEPT
                      !.pc = IF embedder.n <= MAX_OPENAI_BATCH_SIZE
                             THEN "direct" ELSE "split"]
    /\ UNCHANGED nonEmbedderVars

\* Mutant: consecutive sub-batches share their boundary text.
NextSliceStartOverlapping(i) == i + MAX_OPENAI_BATCH_SIZE - 1

\* range(0, len(texts), MAX_OPENAI_BATCH_SIZE)
NextSliceStart(i) == i + MAX_OPENAI_BATCH_SIZE

\* One invocation of _call_api_batch under retry_with_exponential_backoff
\* (default max_attempts): it answers, or it raises and is tried again, or
\* raises for the last time and the error leaves _openai_batch_embeddings.
ProviderInvoke ==
    /\ embedder.pc \in {"direct", "split"}
    /\ LET texts == TextList(embedder.n)
           i == embedder.i
           batch == IF embedder.pc = "direct" THEN texts
                    ELSE Slice(texts, i, i + MAX_OPENAI_BATCH_SIZE)
           call(ok) == [first |-> i, len |-> Len(batch), ok |-> ok]
       IN \/ /\ embedder.pc = "direct"
             /\ embedder' = [embedder EXCEPT !.pc = "returned",
                               !.calls = Append(@, call(TRUE)),
                               !.result = ProviderAnswer(batch)]
          \/ /\ embedder.pc = "split"
             /\ LET extended == embedder.all_embeddings \o ProviderAnswer(batch)
                    ends == NextSliceStart(i) >= embedder.n
                IN embedder' = [embedder EXCEPT
                                  !.pc = IF ends THEN "returned" ELSE "split",
                                  !.calls = Append(@, call(TRUE)),
                                  !.all_embeddings = IF ends THEN << >> ELSE extended,
                                  !.result = IF ends THEN extended ELSE @,
                                  !.i = NextSliceStart(i),
                                  !.attempt = 0]
          \/ embedder' = [embedder EXCEPT
                            !.calls = Append(@, call(FALSE)),
                            !.pc = IF IsLastAttempt(embedder.attempt, default_max_attempts)
                                   THEN "raised" ELSE @,
                            !.all_embeddings =
                               IF IsLastAttempt(embedder.attempt, default_max_attempts)
                               THEN << >> ELSE @,
                            !.attempt = @ + 1]
    /\ UNCHANGED nonEmbedderVars

NextEmbedder == EmbedderCall \/ ProviderInvoke

SpecEmbedder == InitEmbedder /\ [][NextEmbedder]_vars

(* ---- api/routes/vectors.py and the worker: vector records --------------- *)

nonRecordsVars == <<jobVars, stream, chunker, retrier, embedder, search>>

\* Vector components, in units of 10^-9.
Components == {0, 4, 10}

\* f"{v:.8f}": the component rounded to 8 decimals (units of 10^-8).
Format8(v) == (v + 5) \div 10

\* hashlib.sha256(data).hexdigest(): equal exactly for equal data.
Sha256(data) == <<"sha256", data>>

\* _fingerprint(vector): the hash of the formatted components joined by ",".
Fingerprint(vector) ==
    Sha256(<<"joined", [k \in 1..Len(vector) |-> Format8(vector[k])]>>)

\* Chunk texts the worker stores.
ChunkTexts == {"x", "y"}

\* The worker's vector for a chunk: rng.randn(dimension) seeded by the md5 of
\* the text, normalised.  It is a function of the text and the dimension.
MockVector(chunk_text, dimension) ==
    [k \in 1..dimension |-> IF chunk_text = "x" THEN 10 ELSE 4]

\* The worker's fingerprint: the hash of the chunk text.
TextFingerprint(chunk_text) == Sha256(<<"text", chunk_text>>)

\* Vectors a request may carry.
OfferedVectors == UNION {[1..n -> Components] : n \in 1..MaxDimension}

\* A request body of insert_vectors: one VectorCreate or a list of them.
Payloads == UNION {[1..n -> OfferedVectors] : n \in 1..MaxPayload}

\* A collection of some dimension, with no vector record yet.  last is the
\* last request: whether it offered a vector of another dimension, and the
\* answer.
InitRecords ==
    /\ OthersUnused
    /\ chunker = Unused
    /\ retrier = Unused
    /\ embedder = Unused
    /\ search = Unused
    /\ \E dimension \in 1..MaxDimension :
         records = [dimension |-> dimension, rows |-> << >>,
                    last |-> [op |-> "none", mismatch |-> FALSE, resp |-> "none"]]

NewRecord(vector, fingerprint) == [vector |-> vector, fingerprint |-> fingerprint]

\* insert_vectors: the items are checked and added in order; an item of another
\* dimension raises HTTP 400 and get_db rolls the session back, so nothing of
\* the request is stored.
InsertVectors ==
    \E payload \in Payloads :
       LET mismatch == \E k \in 1..Len(payload) :
                          Len(payload[k]) # records.dimension
           added == [k \in 1..Len(payload) |->
                       NewRecord(payload[k], Fingerprint(payload[k]))]
       IN /\ Len(records.rows) + Len(payload) <= MaxRecords
          /\ records' = [records EXCEPT
                           !.rows = IF mismatch THEN @ ELSE @ \o added,
                           !.last = [op |-> "insert", mismatch |-> mismatch,
                                     resp |-> IF mismatch THEN "rejected" ELSE "ok"]]
          /\ UNCHANGED nonRecordsVars

\* update_vector with a vector in the payload: the record takes the vector and
\* its fingerprint, then db.commit().
UpdateVector ==
    \E id \in 1..Len(records.rows), vector \in OfferedVectors :
       /\ records' = [records EXCEPT
                        !.rows[id] = NewRecord(vector, Fingerprint(vector)),
                        !.last = [op |-> "update",
                                  mismatch |-> Len(vector) # records.dimension,
                                  resp |-> "ok"]]
       /\ UNCHANGED nonRecordsVars

\* process_ingestion_job stores the record of one chunk.
IngestChunk ==
    \E chunk_text \in ChunkTexts :
       /\ Len(records.rows) < MaxRecords
       /\ records' = [records EXCEPT
                        !.rows = Append(@, NewRecord(
                                     MockVector(chunk_text, records.dimension),
                                     TextFingerprint(chunk_text))),
                        !.last = [op |-> "ingest", mismatch |-> FALSE,
                                  resp |-> "ok"]]
       /\ UNCHANGED nonRecordsVars

NextRecords == InsertVectors \/ UpdateVector \/ IngestChunk

SpecRecords == InitRecords /\ [][NextRecords]_vars

(* ---- api/routes/vectors.py: similarity_search, hybrid_search ------------- *)

nonSearchVars == <<jobVars, stream, chunker, retrier, embedder, records>>

\* round(x, 6): distances and scores are kept in units of 10^-6.
score_digits == 6

\* 1.0
One == 10 ^ score_digits

\* a / b rounded to the nearest integer, b > 0.
RoundDiv(a, b) == (2 * a + b) \div (2 * b)

\* The square root of a perfect square.
Sqrt(n) == CHOOSE r \in 0..n : r * r = n

RECURSIVE InnerProduct(_, _)
InnerProduct(a, b) ==
    IF a = << >> THEN 0 ELSE a[1] * b[1] + InnerProduct(Tail(a), Tail(b))

\* The pgvector operator for a metric, as similarity_search picks it.
SimilarityOp(metric) ==
    IF metric = "cosine" THEN "<=>"
    ELSE IF metric = "euclidean" THEN "<->"
    ELSE IF metric = "dot_product" THEN "<#>"
    ELSE "<=>"

\* The pgvector operator for a metric, as hybrid_search picks it.
HybridOp(metric) ==
    IF metric = "cosine" THEN "<=>"
    ELSE IF metric = "euclidean" THEN "<->"
    ELSE "<#>"

\* vector op query_vector in pgvector, for two vectors of one dimension:
\* cosine distance, Euclidean distance, negative inner product.
Distance(op, a, b) ==
    IF op = "<->"
    THEN LET diff == [k \in 1..Len(a) |-> a[k] - b[k]]
         IN Sqrt(InnerProduct(diff, diff)) * One
    ELSE IF op = "<#>" THEN (0 - InnerProduct(a, b)) * One
    ELSE One - RoundDiv(InnerProduct(a, b) * One,
                        Sqrt(InnerProduct(a, a)) * Sqrt(InnerProduct(b, b)))

\* The score similarity_search derives from a distance: 1 - distance,
\* -distance, or 1 / (1 + distance) for a Euclidean distance, which is a whole
\* number for the vectors in use.
SimilarityScore(metric, distance) ==
    IF metric = "cosine" THEN One - distance
    ELSE IF metric = "dot_product" THEN 0 - distance
    ELSE RoundDiv(One, (One + distance) \div One)

\* metadata @> filters for JSON objects of scalar values; NULL metadata
\* contains nothing.
Contains(metadata, filters) == metadata # None /\ filters[1] \subseteq metadata[1]

\* if payload.filters: an absent or empty filter object adds no clause.
HasFilters(filters) == filters # None /\ filters[1] # {}

\* The words of the texts in use; a blank text has none.
Words(text) == IF strip(text) = << >> THEN {} ELSE {strip(text)}

\* to_tsvector(COALESCE(text_content, '')) @@ plainto_tsquery(query_text)
TsMatch(text_content, query_text) ==
    /\ Words(query_text) # {}
    /\ text_content # None
    /\ Words(query_text) \subseteq Words(text_content[1])

\* ts_rank of a document for a query it matches in one word, else 0.
ts_rank_one_word == 60793

TsRank(text_content, query_text) ==
    IF TsMatch(text_content, query_text) THEN ts_rank_one_word ELSE 0

\* HybridSearchRequest.vector_weight and text_weight, in tenths.
default_vector_weight == 7
default_text_weight == 3

\* The sequences a SELECT ... ORDER BY key LIMIT top_k may return over the
\* rows ids: the first top_k in key order, rows of equal key in any order.
OrderedLimit(ids, key, top_k) ==
    LET n == Min(top_k, Cardinality(ids))
    IN {seq \in [1..n -> ids] :
          /\ \A i \in 1..n, j \in 1..n : i < j =>
                seq[i] # seq[j] /\ key[seq[i]] <= key[seq[j]]
          /\ \A i \in 1..n, id \in ids :
                (\A j \in 1..n : seq[j] # id) => key[seq[i]] <= key[id]}

\* The Query row a search adds to the session.
NewQuery(query_vector, query_text, results_count, filters) ==
    [query_vector |-> query_vector, query_text |-> query_text,
     results_count |-> results_count, filters |-> filters]

\* A request rejected by the handler with an HTTPException, or failed in the
\* store.
Refused(status, queried) ==
    [status |-> status, results |-> << >>, queried |-> queried, added |-> << >>]

\* A request answered 200 with results, with the Query row added.
Answered200(results, query) ==
    [status |-> "ok", results |-> results, queried |-> TRUE, added |-> <<query>>]

\* EmbeddingProvider.get_embedding(text, dimension=dimension): a vector of
\* the collection's dimension that depends on the text.
QueryEmbedding(text, dimension) ==
    [k \in 1..dimension |-> IF k = 1 THEN 3 ELSE IF text = << >> THEN 0 ELSE 4]

\* QueryRequest(...)
QueryRequest(vector, text, top_k, filters, distance_metric) ==
    [vector |-> vector, text |-> text, top_k |-> top_k, filters |-> filters,
     distance_metric |-> distance_metric]

\* What similarity_search(collection_id, payload, db) may do: reject the
\* request, or query the store, build the results and add the Query row.
SimilaritySearchOutcomes(payload) ==
    LET query_vector == IF payload.vector # None THEN payload.vector[1]
                        ELSE QueryEmbedding(payload.text[1], search.dimension)
        metric == IF payload.distance_metric # None THEN payload.distance_metric[1]
                  ELSE search.distance_metric
        op == SimilarityOp(metric)
        ids == {id \in 1..Len(search.rows) :
                   HasFilters(payload.filters) =>
                      Contains(search.rows[id].metadata, payload.filters)}
        distance(id) == Distance(op, search.rows[id].vector, query_vector)
        result(id) == [id |-> id,
                       score |-> SimilarityScore(metric, distance(id)),
                       distance |-> Some(distance(id)),
                       metadata |-> search.rows[id].metadata,
                       text_content |-> search.rows[id].text_content]
    IN IF payload.vector = None /\ payload.text = None
       THEN {Refused("missing_query", FALSE)}
       ELSE IF Len(query_vector) # search.dimension
       THEN {Refused("dimension_mismatch", FALSE)}
       ELSE {Answered200([k \in 1..Len(seq) |-> result(seq[k])],
                         NewQuery(Some(query_vector), payload.text, Len(seq),
                                  payload.filters)) :
                seq \in OrderedLimit(ids, [id \in ids |-> distance(id)], payload.top_k)}

\* Mutant: the delegated request leaves the filters out.
DelegatedRequestNoFilters(payload) ==
    QueryRequest(payload.vector, None, payload.top_k, None,
                 payload.distance_metric)

\* The QueryRequest hybrid_search hands to similarity_search.
DelegatedRequest(payload) ==
    QueryRequest(payload.vector, None, payload.top_k, payload.filters,
                 payload.distance_metric)

\* has_text = payload.text is not None and payload.text.strip() != ""
HasText(payload) == payload.text # None /\ strip(payload.text[1]) # << >>

\* What hybrid_search(collection_id, payload, db) may do.
HybridSearchOutcomes(payload) ==
    LET metric == IF payload.distance_metric # None THEN payload.distance_metric[1]
                  ELSE search.distance_metric
        op == HybridOp(metric)
        has_vector == payload.vector # None
        has_text == HasText(payload)
        all == 1..Len(search.rows)
        matching == {id \in all :
                        TsMatch(search.rows[id].text_content, payload.text[1])}
        combined_score(id) ==
            ((One - Distance(op, search.rows[id].vector, payload.vector[1]))
                 * default_vector_weight
               + TsRank(search.rows[id].text_content, payload.text[1])
                 * default_text_weight) \div 10
        text_score(id) == TsRank(search.rows[id].text_content, payload.text[1])
        result(id, score) == [id |-> id, score |-> score, distance |-> None,
                              metadata |-> search.rows[id].metadata,
                              text_content |-> search.rows[id].text_content]
        by_combined(id) == 0 - combined_score(id)
        by_text(id) == 0 - text_score(id)
        query(n) == NewQuery(payload.vector, payload.text, n, payload.filters)
    IN IF payload.vector = None /\ payload.text = None
       THEN {Refused("missing_query", FALSE)}
       ELSE IF has_vector /\ has_text
       THEN IF \E id \in all : Len(search.rows[id].vector) # Len(payload.vector[1])
            THEN {Refused("server_error", TRUE)}
            ELSE {Answered200([k \in 1..Len(seq) |->
                                  result(seq[k], combined_score(seq[k]))],
                              query(Len(seq))) :
                     seq \in OrderedLimit(all, [id \in all |-> by_combined(id)],
                                         payload.top_k)}
       ELSE IF has_text
       THEN {Answered200([k \in 1..Len(seq) |-> result(seq[k], text_score(seq[k]))],
                         query(Len(seq))) :
                seq \in OrderedLimit(matching, [id \in matching |-> by_text(id)],
                                    payload.top_k)}
       ELSE SimilaritySearchOutcomes(DelegatedRequest(payload))

\* Vectors of dimension d whose distances are whole or round in six digits.
SearchVectors(d) ==
    IF d = 1 THEN {<<3>>, <<4>>}
    ELSE {[k \in 1..d |-> IF k = 1 THEN 3 ELSE 0],
          [k \in 1..d |-> IF k = 1 THEN 3 ELSE IF k = 2 THEN 4 ELSE 0]}

\* JSON objects are sets of key-value pairs.
Metadatas == {None, Some({<<"k", 1>>}), Some({<<"k", 2>>})}

FilterObjects == {None, Some({}), Some({<<"k", 1>>})}

StoredTexts == {None, Some(<<"c", "a", "t">>)}

QueryTexts == {None, Some(<<" ">>), Some(<<"c", "a", "t">>)}

CollectionMetrics == {"cosine", "euclidean"}

RequestMetrics == {None, Some("dot_product")}

\* The rows a collection of dimension d may hold.
StoredRows(d) ==
    [vector : SearchVectors(d), metadata : Metadatas, text_content : StoredTexts]

\* The request bodies: QueryRequest and HybridSearchRequest share these
\* fields.
SearchPayloads ==
    [vector : {None} \cup {Some(v) : v \in UNION {SearchVectors(d) : d \in 1..MaxDimension}},
     text : QueryTexts, top_k : 1..MaxTopK, filters : FilterObjects,
     distance_metric : RequestMetrics]

\* A request has reached one of the two search routes of a collection whose
\* rows have the collection's dimension.
InitSearch ==
    /\ OthersUnused
    /\ chunker = Unused
    /\ retrier = Unused
    /\ embedder = Unused
    /\ records = Unused
    /\ \E dimension \in 1..MaxDimension, distance_metric \in CollectionMetrics,
          endpoint \in {"similarity_search", "hybrid_search"},
          payload \in SearchPayloads :
         \E rows \in UNION {[1..n -> StoredRows(dimension)] : n \in 0..MaxRows} :
            search = [pc |-> "call", endpoint |-> endpoint,
                      dimension |-> dimension, distance_metric |-> distance_metric,
                      rows |-> rows, payload |-> payload,
                      status |-> "none", results |-> << >>, queried |-> FALSE,
                      added |-> << >>, queries |-> << >>, commit |-> "none"]

\* The handler has run to its return or to the exception it raises.
Handled(outcome) ==
    [search EXCEPT !.pc = IF outcome.status = "ok" THEN "returned" ELSE "raised",
                   !.status = outcome.status, !.results = outcome.results,
                   !.queried = outcome.queried, !.added = outcome.added]

SimilaritySearch ==
    /\ search.pc = "call"
    /\ search.endpoint = "similarity_search"
    /\ \E outcome \in SimilaritySearchOutcomes(search.payload) :
          search' = Handled(outcome)
    /\ UNCHANGED nonSearchVars

HybridSearch ==
    /\ search.pc = "call"
    /\ search.endpoint = "hybrid_search"
    /\ \E outcome \in HybridSearchOutcomes(search.payload) :
          search' = Handled(outcome)
    /\ UNCHANGED nonSearchVars

\* get_db after the handler returned: session.commit() stores the Query row.
GetDbCommit ==
    /\ search.pc = "returned"
    /\ search' = [search EXCEPT !.pc = "done", !.queries = search.added,
                                !.added = << >>, !.commit = "ok"]
    /\ UNCHANGED nonSearchVars

\* get_db after the handler returned, when session.commit() raises: the
\* session is rolled back and the exception raised again.  The request is
\* answered 500 where the dependency's exit code runs before the response is
\* sent, and keeps its answer where it runs after.
GetDbCommitFails ==
    /\ search.pc = "returned"
    /\ \E status \in {"server_error", search.status} :
          search' = [search EXCEPT
                       !.pc = "done", !.added = << >>, !.commit = "failed",
                       !.status = status,
                       !.results = IF status = "ok" THEN @ ELSE << >>]
    /\ UNCHANGED nonSearchVars

\* get_db after the handler raised: session.rollback(), and the exception
\* goes on to the caller.
GetDbRollback ==
    /\ search.pc = "raised"
    /\ search' = [search EXCEPT !.pc = "done", !.added = << >>]
    /\ UNCHANGED nonSearchVars

NextSearch ==
    \/ SimilaritySearch
    \/ HybridSearch
    \/ GetDbCommit
    \/ GetDbCommitFails
    \/ GetDbRollback

SpecSearch == InitSearch /\ [][NextSearch]_vars

(* ---- properties -------------------------------------------------------- *)

Active(w) == worker[w].pc # "idle"

\* No retry_job request has been accepted: the job is in its first life and
\* the only task ever queued for it is create_job's.
NoRetryAccepted == \A r \in RetryRequests : retry[r].pc # "read" /\ retry[r].resp # "ok"

\* No cancel_job request has been sent.
NoCancelRequested == \A c \in CancelRequests : cancel[c].pc = "new"

\* Worker w runs the step that ends its task with the given outcomes.
Returns(w, outcomes) ==
    Active(w) /\ worker'[w].pc = "idle" /\ worker'[w].outcome \in outcomes

\* C1: under every interleaving of worker runs with cancel_job and retry_job,
\* a persisted status of completed or cancelled never changes again.
C1_TerminalStatusNeverChanges ==
    [][JobExists /\ Job.status \in {"completed", "cancelled"}
         => Job'.status = Job.status]_vars

\* C2: once cancel_job has committed cancelled while a worker is in its batch
\* loop, that worker starts no further batch, the counters stay where they
\* are and the persisted status stays cancelled.
C2_CancelStopsTheWorker ==
    [][\A w \in Workers :
         (JobExists /\ Job.status = "cancelled"
            /\ worker[w].pc \in {"batches", "complete"}
            /\ worker'[w] # worker[w])
         => worker'[w].i = worker[w].i /\ Job' = Job]_vars

\* C3: once total_chunks is set, processed_chunks + failed_chunks never
\* exceeds total_chunks in the persisted job.
C3_CountersWithinTotal ==
    (JobExists /\ Job.total_chunks > 0)
      => Job.processed_chunks + Job.failed_chunks <= Job.total_chunks

\* C4: no two executions of process_ingestion_job are active on the job at
\* the same time.
C4_OneWorkerPerJob == Cardinality({w \in Workers : Active(w)}) <= 1

C6_FailedLeftOnlyByRetry ==
    [][JobExists =>
         /\ (Job.status = "failed" /\ Job'.status # "failed")
              => /\ Job'.status = "pending"
                 /\ \E r \in RetryRequests :
                      retry[r].pc = "read" /\ retry'[r].pc = "done"
         /\ \A c \in CancelRequests :
              (Job.status = "failed" /\ cancel[c].pc = "new" /\ cancel'[c].pc # "new")
                => cancel'[c].resp = "rejected"]_vars

\* C7: retry_job that finds the job failed leaves it pending, without
\* error_message, with both counters at 0, and enqueues one processing task;
\* retry_job that finds any other status answers with an error, changes no
\* field of the job and enqueues nothing.
C7_RetryContract ==
    [][\A r \in RetryRequests :
         /\ (JobExists /\ retry[r].pc = "new" /\ retry'[r].pc # "new")
              => IF Job.status = "failed"
                 THEN retry'[r].pc = "read"
                 ELSE /\ retry'[r].resp = "rejected"
                      /\ UNCHANGED <<ingestion_jobs, queue>>
         /\ (retry[r].pc = "read" /\ retry'[r].pc = "done")
              => /\ Job'.status = "pending"
                 /\ Job'.error_message = None
                 /\ Job'.processed_chunks = 0
                 /\ Job'.failed_chunks = 0
                 /\ queue' = queue + 1]_vars

\* C8: a chunk whose embedding or whose vector-store write fails is counted
\* in failed_chunks and nowhere else; the batch loop goes on, the job is never
\* marked failed for it, and the run ends with the job completed.
C8_ChunkFailureNeverAborts ==
    [][\A w \in Workers :
         /\ (worker[w].pc = "batches" /\ worker'[w] # worker[w])
              => /\ worker'[w].pc \in {"batches", "complete"}
                 /\ worker'[w].mem.processed_chunks + worker'[w].mem.failed_chunks
                      = worker[w].mem.processed_chunks + worker[w].mem.failed_chunks
                          + Min(batch_size, worker[w].chunks - worker[w].i)
                 /\ worker'[w].mem.failed_chunks - worker[w].mem.failed_chunks
                      = worker'[w].embed_failed - worker[w].embed_failed
                 /\ Job'.status = Job.status
         /\ (worker[w].pc \in {"batches", "complete", "except"}
               /\ worker'[w].pc = "idle")
              => worker'[w].outcome = "completed" /\ Job'.status = "completed"]_vars

\* C9: in the first life of a job (created pending, never retried), a run
\* that finds no collection, whose parser raises or whose text is blank
\* leaves the job failed with a non-empty error_message, the three counters
\* at 0 and no vector record written, and the task returns.
C9_EarlyFailure ==
    [][\A w \in Workers :
         (NoRetryAccepted /\ worker[w].pc = "started"
            /\ Returns(w, {"collection", "parse", "empty"}))
         => /\ Job'.status = "failed"
            /\ Job'.error_message # None
            /\ Len(Job'.error_message[1]) > 0
            /\ Job'.total_chunks = 0
            /\ Job'.processed_chunks = 0
            /\ Job'.failed_chunks = 0
            /\ vectors' = 0]_vars

\* The parser raised in the first run: the job is failed with the parser's
\* message and nothing was counted.
C9_Witness ==
    /\ JobExists
    /\ NoRetryAccepted
    /\ \E w \in Workers : worker[w].outcome = "parse"
    /\ Job.status = "failed"
    /\ Job.error_message = Some("Failed to parse document: ")
    /\ Job.total_chunks = 0
    /\ vectors = 0

\* C10: with no per-chunk failure, no cancellation requested and no retry,
\* the status moves only pending -> processing -> completed (or failed), and
\* the run that completes leaves total_chunks = processed_chunks = N,
\* failed_chunks = 0, status completed and completed_at set.
C10_HappyPath ==
    [][(JobExists /\ NoRetryAccepted /\ NoCancelRequested') =>
         /\ Job'.status # Job.status
              => <<Job.status, Job'.status>> \in
                   {<<"pending", "processing">>, <<"processing", "completed">>,
                    <<"processing", "failed">>}
         /\ \A w \in Workers :
              (worker[w].pc = "complete" /\ worker[w].embed_failed = 0
                 /\ Returns(w, {"completed"}))
              => /\ Job'.status = "completed"
                 /\ Job'.total_chunks = doc_chunks
                 /\ Job'.processed_chunks = doc_chunks
                 /\ Job'.failed_chunks = 0
                 /\ Job'.completed_at]_vars

\* A two-batch document went through without failure, cancel or retry.
C10_Witness ==
    /\ JobExists
    /\ NoRetryAccepted
    /\ NoCancelRequested
    /\ doc_chunks = batch_size + 1
    /\ \E w \in Workers : worker[w].outcome = "completed"
    /\ Job.status = "completed"
    /\ Job.processed_chunks = doc_chunks
    /\ Job.failed_chunks = 0
    /\ Job.completed_at

\* C11: a progress stream that has ended has as its last event a terminal
\* status (completed, failed, cancelled) or the not-found event.
C11_StreamEndsOnTerminal ==
    stream.pc = "closed" => stream.last \in TerminalStatuses \cup {"not_found"}

\* C12: fixed_size_chunks terminates for every chunk_size >= 1 and every
\* overlap >= 0: each pass of its loop either moves the window start strictly
\* forward or ends the loop.
C12_WindowAdvancesOrStops ==
    [][chunker.pc = "loop"
         => chunker'.start > chunker.start \/ chunker'.pc = "returned"]_vars

AllErrors(outcomes) == \A i \in 1..Len(outcomes) : outcomes[i] = "error"

\* C13: with max_attempts = m >= 1 the wrapper invokes func until its first
\* success or m failures.  A success at invocation k <= m is returned after
\* k invocations and k - 1 sleeps; after m failures the error of the m-th
\* invocation is raised, after m invocations and m - 1 sleeps.
C13_RetryUntilSuccessOrExhausted ==
    retrier.max_attempts >= 1 =>
      LET k == Len(retrier.outcomes)
      IN /\ retrier.pc = "loop" =>
              /\ k < retrier.max_attempts
              /\ AllErrors(retrier.outcomes)
              /\ Len(retrier.sleeps) = k
         /\ retrier.pc = "returned" =>
              /\ k \in 1..retrier.max_attempts
              /\ AllErrors(SubSeq(retrier.outcomes, 1, k - 1))
              /\ retrier.outcomes[k] = "ok"
              /\ retrier.result = Some(<<"value", k>>)
              /\ Len(retrier.sleeps) = k - 1
         /\ retrier.pc = "raised" =>
              /\ k = retrier.max_attempts
              /\ AllErrors(retrier.outcomes)
              /\ retrier.result = Some(<<"error", retrier.max_attempts>>)
              /\ Len(retrier.sleeps) = retrier.max_attempts - 1

\* Under max_attempts = 4 the third invocation succeeded after two sleeps.
C13_WitnessReturned ==
    /\ retrier.max_attempts = 4
    /\ retrier.pc = "returned"
    /\ retrier.outcomes = <<"error", "error", "ok">>
    /\ Len(retrier.sleeps) = 2

RECURSIVE Pow(_, _)
Pow(b, i) == IF i = 0 THEN 1 ELSE b * Pow(b, i - 1)

\* C14: the i-th sleep (i from 0) lasts
\* min(initial_delay * exponential_base^i, max_delay): no sleep is longer than
\* max_delay and the sleeps never get shorter.
C14_SleepsCappedAndGrowing ==
    \A i \in 1..Len(retrier.sleeps) :
       /\ retrier.sleeps[i]
            = Min(retrier.initial_delay * Pow(retrier.exponential_base, i - 1),
                  retrier.max_delay)
       /\ retrier.sleeps[i] <= retrier.max_delay
       /\ i > 1 => retrier.sleeps[i - 1] <= retrier.sleeps[i]

\* Texts answered by the successful provider calls among the first p.
RECURSIVE TextsAnswered(_, _)
TextsAnswered(calls, p) ==
    IF p = 0 THEN 0
    ELSE TextsAnswered(calls, p - 1) + (IF calls[p].ok THEN calls[p].len ELSE 0)

\* C15: the provider is called on consecutive slices of at most
\* MAX_OPENAI_BATCH_SIZE texts in input order, a failed call is repeated on
\* the same slice and never on an earlier one, and the value returned has one
\* vector per text, the j-th being the embedding of the j-th text.
C15_BatchEmbeddingInOrder ==
    /\ \A p \in 1..Len(embedder.calls) :
         /\ embedder.calls[p].first = TextsAnswered(embedder.calls, p - 1)
         /\ embedder.calls[p].len
              = Min(MAX_OPENAI_BATCH_SIZE, embedder.n - embedder.calls[p].first)
         /\ embedder.calls[p].len >= 1
    /\ embedder.pc = "returned" =>
         /\ Len(embedder.result) = embedder.n
         /\ \A j \in 1..embedder.n :
              embedder.result[j] = Embedding(TextList(embedder.n)[j])
         /\ TextsAnswered(embedder.calls, Len(embedder.calls)) = embedder.n

\* Three sub-batches were embedded, the second at its second attempt.
C15_WitnessThreeSlices ==
    /\ embedder.pc = "returned"
    /\ embedder.n = 2 * MAX_OPENAI_BATCH_SIZE + 1
    /\ Len(embedder.calls) = 4
    /\ ~embedder.calls[2].ok
    /\ Len(embedder.result) = embedder.n

\* C16: every stored vector record has the dimension of its collection, and
\* a request that offers a vector of another dimension is rejected and leaves
\* the stored records as they were.
C16_StoredVectorsHaveCollectionDimension ==
    [][/\ \A id \in 1..Len(records'.rows) :
            Len(records'.rows[id].vector) = records'.dimension
       /\ records'.last.mismatch
            => records'.last.resp = "rejected" /\ records'.rows = records.rows]_vars

\* C17: two stored records with identical vector values carry identical
\* fingerprints, whichever path wrote them.
C17_EqualVectorsEqualFingerprints ==
    \A i, j \in 1..Len(records.rows) :
       records.rows[i].vector = records.rows[j].vector
         => records.rows[i].fingerprint = records.rows[j].fingerprint

NonBlank(text) == strip(text) # << >>

\* C18: for a non-blank text and 0 <= overlap < chunk_size,
\* fixed_size_chunks returns at least one chunk, and every chunk is non-empty,
\* has no surrounding whitespace and is at most chunk_size long.
C18_FixedSizeChunksWellFormed ==
    (/\ chunker.pc = "returned"
     /\ chunker.overlap < chunker.chunk_size
     /\ NonBlank(chunker.text))
    => /\ Len(chunker.chunks) >= 1
       /\ \A k \in 1..Len(chunker.chunks) :
            /\ chunker.chunks[k] # << >>
            /\ strip(chunker.chunks[k]) = chunker.chunks[k]
            /\ Len(chunker.chunks[k]) <= chunker.chunk_size

\* A text with blanks inside was cut into windows of which one held only
\* blanks and two or more were kept, one of them trimmed.
C18_WitnessTrimmed ==
    /\ chunker.pc = "returned"
    /\ chunker.overlap < chunker.chunk_size
    /\ NonBlank(chunker.text)
    /\ Len(chunker.chunks) >= 2
    /\ Len(chunker.chunks) < chunker.passes
    /\ \E k \in 1..Len(chunker.chunks) :
         Len(chunker.chunks[k]) < chunker.chunk_size

CeilDiv(a, b) == (a + b - 1) \div b

\* C19: for a text of n >= 1 non-whitespace characters and
\* 0 <= overlap < chunk_size, fixed_size_chunks returns
\* max(1, ceil((n - overlap) / (chunk_size - overlap))) chunks, the k-th (from
\* 0) being the slice of the text that starts at k * (chunk_size - overlap)
\* and is at most chunk_size long.
C19_FixedSizeChunkCount ==
    (/\ chunker.pc = "returned"
     /\ chunker.overlap < chunker.chunk_size
     /\ Len(chunker.text) >= 1
     /\ \A i \in 1..Len(chunker.text) : chunker.text[i] \notin Whitespace)
    => LET n == Len(chunker.text)
           stride == chunker.chunk_size - chunker.overlap
       IN /\ Len(chunker.chunks) = Max(1, CeilDiv(n - chunker.overlap, stride))
          /\ \A k \in 1..Len(chunker.chunks) :
               chunker.chunks[k]
                 = Slice(chunker.text, (k - 1) * stride,
                         (k - 1) * stride + chunker.chunk_size)

\* Four characters in windows of three with an overlap of one: two chunks, the
\* second shorter.
C19_WitnessTwoChunks ==
    /\ chunker.pc = "returned"
    /\ chunker.text = <<"a", "b", "b", "a">>
    /\ chunker.chunk_size = 3
    /\ chunker.overlap = 1
    /\ chunker.chunks = << <<"a", "b", "b">>, <<"b", "a">> >>

\* C20: no strategy ever produces a chunk that is empty or whitespace-only,
\* and for an empty or whitespace-only text each of the four strategies
\* returns the empty list.
C20_NoBlankChunks ==
    /\ \A k \in 1..Len(chunker.chunks) : NonBlank(chunker.chunks[k])
    /\ (chunker.pc = "returned" /\ ~NonBlank(chunker.text))
         => chunker.chunks = << >>

\* paragraph_chunks returned the empty list for a text of blanks and a
\* newline.
C20_WitnessBlankText ==
    /\ chunker.pc = "returned"
    /\ chunker.strategy = "paragraph"
    /\ chunker.text = <<" ", "\n", " ">>
    /\ chunker.chunks = << >>

\* The sentences of the text given to the chunker, as sentence_chunks finds them.
SentencesOfText == StripAndDropBlank(SplitSentences(chunker.text, 1))

\* chunk is sentences[i..j] joined by single spaces.
IsSentenceRun(chunk, sentences, i, j) ==
    i <= j /\ chunk = Join(SubSeq(sentences, i, j), <<" ">>)

\* C21: sentence_chunks never splits a sentence: every chunk it returns is a
\* run of whole consecutive sentences joined by single spaces, every sentence
\* (one longer than chunk_size included) is in such a chunk whole, and with
\* overlap = 0 the chunks joined by single spaces are the sentences of the
\* input joined by single spaces, each once and in order.
C21_SentencesNeverSplit ==
    (chunker.pc = "returned" /\ chunker.strategy = "sentence") =>
        LET sentences == SentencesOfText
            chunks == chunker.chunks
            n == Len(sentences)
        IN /\ \A k \in 1..Len(chunks) : \E i \in 1..n, j \in 1..n :
                  IsSentenceRun(chunks[k], sentences, i, j)
           /\ \A s \in 1..n : \E k \in 1..Len(chunks), i \in 1..s, j \in s..n :
                  IsSentenceRun(chunks[k], sentences, i, j)
           /\ chunker.overlap = 0 =>
                  Join(chunks, <<" ">>) = Join(sentences, <<" ">>)

\* Three sentences, the first longer than chunk_size and emitted whole, with
\* overlap = 0.
C21_WitnessLongSentence ==
    /\ chunker.pc = "returned" /\ chunker.strategy = "sentence"
    /\ chunker.text = <<"a", "a", ".", " ", ".", " ", "a">>
    /\ chunker.chunk_size = 2 /\ chunker.overlap = 0
    /\ chunker.chunks = << <<"a", "a", ".">>, <<".", " ", "a">> >>

\* The heading lines among lines, by line number.
HeadingLines(lines) == {q \in 1..Len(lines) : IsHeader(lines[q])}

\* The headings active at heading line q: a heading stays active until a
\* later heading of the same or a shallower level.
ActiveAt(lines, heads, q) ==
    {p \in heads : p <= q /\ \A r \in heads :
        (p < r /\ r <= q) => HashCount(lines[r]) > HashCount(lines[p])}

\* The elements of a set of numbers in increasing order.
RECURSIVE Ascending(_)
Ascending(S) ==
    IF S = {} THEN << >>
    ELSE LET m == CHOOSE x \in S : \A y \in S : x <= y
         IN <<m>> \o Ascending(S \ {m})

\* The breadcrumb of the section under heading line q: its active headings
\* from the shallowest to its own; line 0 stands for the text before the
\* first heading, which has none.
FullBreadcrumb(lines, heads, q) ==
    LET active == Ascending(ActiveAt(lines, heads, q))
    IN Join([k \in 1..Len(active) |->
                Hashes(HashCount(lines[active[k]])) \o <<" ">>
                    \o HeaderTitle(lines[active[k]])],
            <<" ", ">", " ">>)

\* The content of the section that starts after line q.
SectionContent(lines, heads, q) ==
    LET later == {r \in heads : r > q}
        last == IF later = {} THEN Len(lines)
                ELSE (CHOOSE r \in later : \A t \in later : r <= t) - 1
    IN strip(Join(SubSeq(lines, q + 1, last), <<"\n">>))

\* The sections of the document in order, by the line they start after.
SectionStarts(lines, heads) ==
    Ascending(heads \cup (IF SectionContent(lines, heads, 0) # << >> THEN {0}
                          ELSE {}))

\* A section as one text: its breadcrumb, a blank line and its content.
WholeSection(breadcrumb, content) ==
    IF breadcrumb = << >> THEN content
    ELSE IF content = << >> THEN breadcrumb
    ELSE breadcrumb \o <<"\n", "\n">> \o content

\* A piece of a section split for size: the breadcrumb, a blank line and
\* the piece.
UnderBreadcrumb(breadcrumb, piece) ==
    IF breadcrumb = << >> THEN piece ELSE breadcrumb \o <<"\n", "\n">> \o piece

\* The runs of consecutive parts joined by sep.
RunsOf(parts, sep) ==
    {Join(SubSeq(parts, i, j), sep) : i \in 1..Len(parts), j \in 1..Len(parts)}
        \ {<< >>}

\* What a sub-chunk of a section split for size may be: its content, or
\* consecutive paragraphs or sentences of it.
ContentPieces(content) ==
    {content}
      \cup RunsOf(StripAndDropBlank(SplitParagraphs(content, 1)),
                  <<"\n", "\n">>)
      \cup RunsOf(StripAndDropBlank(SplitSentences(content, 1)), <<" ">>)

\* C22: every chunk markdown_chunks returns carries, before the content of
\* each section it holds, that section's full breadcrumb (the headings active
\* at that point from the shallowest to the section's own): a chunk is either
\* whole consecutive sections merged, each under its breadcrumb, or a
\* sub-chunk of one section split for size under that section's breadcrumb.
C22_ContentUnderFullBreadcrumb ==
    (chunker.pc = "returned" /\ chunker.strategy = "markdown") =>
        LET lines == SplitLines(chunker.text, 1)
            heads == HeadingLines(lines)
            starts == SectionStarts(lines, heads)
            n == Len(starts)
            breadcrumb == [i \in 1..n |-> FullBreadcrumb(lines, heads, starts[i])]
            content == [i \in 1..n |-> SectionContent(lines, heads, starts[i])]
            whole == [i \in 1..n |-> WholeSection(breadcrumb[i], content[i])]
            merged == RunsOf(whole, <<"\n", "\n">>)
            sub_chunks == UNION {{UnderBreadcrumb(breadcrumb[i], piece) :
                                     piece \in ContentPieces(content[i])} :
                                 i \in 1..n}
        IN \A k \in 1..Len(chunker.chunks) :
              chunker.chunks[k] \in merged \cup sub_chunks

\* A section of two long paragraphs under a second-level heading, split for
\* size into two sub-chunks that both begin with the two-level breadcrumb,
\* after the chunk of the first heading alone.
C22_WitnessSplitSection ==
    /\ chunker.pc = "returned" /\ chunker.strategy = "markdown"
    /\ chunker.text = <<"#", " ", "h", "\n">> \o <<"#", "#", " ", "g", "\n">>
                        \o LongSentence \o <<"\n", "\n">>
                        \o LongSentence \o <<"\n", "\n">>
    /\ chunker.chunks =
         LET breadcrumb == <<"#", " ", "h", " ", ">", " ", "#", "#", " ", "g">>
         IN << <<"#", " ", "h">>, breadcrumb \o <<"\n", "\n">> \o LongSentence,
               breadcrumb \o <<"\n", "\n">> \o LongSentence >>

\* The handler of the search request has run.
SearchHandled == search.pc \in {"returned", "raised", "done"}

\* C23: a hybrid_search request with a vector and no non-blank text is
\* answered as similarity_search answers the same vector, top_k, filters and
\* distance_metric (same status, results, order, scores and distances), and a
\* search that was executed records exactly one Query row.
C23_VectorOnlyHybridIsSimilarity ==
    (/\ search.endpoint = "hybrid_search"
     /\ search.payload.vector # None /\ ~HasText(search.payload)
     /\ SearchHandled /\ search.commit # "failed") =>
        /\ \E outcome \in SimilaritySearchOutcomes(
                 QueryRequest(search.payload.vector, None, search.payload.top_k,
                              search.payload.filters,
                              search.payload.distance_metric)) :
              outcome.status = search.status /\ outcome.results = search.results
        /\ search.status = "ok" =>
              Len(search.added) + Len(search.queries) = 1

\* A hybrid request with a vector, a blank text and a filter that leaves one
\* of two rows has been answered with that row and its Query row committed.
C23_WitnessFilteredDelegation ==
    /\ search.endpoint = "hybrid_search" /\ search.pc = "done"
    /\ search.payload.vector = Some(<<3, 4>>)
    /\ search.payload.text = Some(<<" ">>)
    /\ search.payload.filters = Some({<<"k", 1>>})
    /\ search.payload.top_k = 2
    /\ Len(search.rows) = 2
    /\ search.rows[1].metadata = Some({<<"k", 2>>})
    /\ search.rows[2].metadata = Some({<<"k", 1>>})
    /\ search.status = "ok"
    /\ Len(search.results) = 1 /\ search.results[1].id = 2
    /\ search.results[1].distance # None
    /\ search.commit = "ok" /\ Len(search.queries) = 1

\* The request carries a query vector that the search uses.
UsesCallerVector == search.payload.vector # None

\* C24: a search that uses a caller-supplied query vector whose length is
\* not the collection's dimension is rejected with the dimension-mismatch
\* error before the store is queried, returns no result and records no
\* Query row.
C24_MismatchedQueryVectorRejected ==
    (/\ SearchHandled /\ UsesCallerVector
     /\ Len(search.payload.vector[1]) # search.dimension) =>
        /\ search.status = "dimension_mismatch"
        /\ ~search.queried
        /\ search.results = << >>
        /\ search.added = << >> /\ search.queries = << >>

\* C25: when the Query row of an executed search cannot be persisted, the
\* request still succeeds and returns its results.
C25_AnalyticsFailureKeepsSearch ==
    search.commit = "failed" => search.status = "ok"

\* C30: every result of a hybrid_search request that carries metadata
\* filters satisfies the filters, on the vector and text path, the text-only
\* path and the vector-only path.
C30_HybridResultsSatisfyFilters ==
    (/\ search.endpoint = "hybrid_search" /\ SearchHandled
     /\ HasFilters(search.payload.filters)) =>
        \A k \in 1..Len(search.results) :
            Contains(search.results[k].metadata, search.payload.filters)

\* C26: whenever the job's persisted status is completed, its processed and
\* failed chunks add up to its total_chunks.
C26_CompletedCountsAddUp ==
    (JobExists /\ Job.status = "completed") =>
        Job.processed_chunks + Job.failed_chunks = Job.total_chunks

\* C28: the store holds at most one vector record per chunk index of the
\* job's document.  Each run writes a chunk index at most once, so more
\* records than the document has chunks means an index written twice.
C28_OneRecordPerChunk == vectors <= doc_chunks

\* C29: a job whose task a worker has taken eventually has a terminal
\* status, whatever step of the run fails, if the workers keep taking steps.
C29_DeliveredJobTerminates ==
    (\E w \in Workers : worker[w].pc = "loaded")
        ~> (JobExists /\ Job.status \in TerminalStatuses)

\* C27: each poll of job_progress reports the job as it is stored at that
\* poll, so a stream that is open when the job becomes terminal emits the
\* terminal status: the event of a poll carries the persisted status.
C27_PollsReportStoredJob ==
    [][(stream.pc = "polling" /\ stream'.polls = stream.polls + 1 /\ JobExists)
         => stream'.last = Job.status]_vars

====
